---- MODULE Spec2Model ----
(***************************************************************************)
(* The report workflow of source/agentic_workflow: the research graph      *)
(* (node_builder.main_node_builder), the interview sub-graph run once per  *)
(* analyst (node_builder.interview_node_builder) and the polling gateway   *)
(* to the human reviewer (input_agents.wait_for_feedback_periodically).    *)
(*                                                                         *)
(* The graphs are executed by the graph library in supersteps: the tasks   *)
(* of a step read the state as it was when the step began, their partial   *)
(* updates are merged through the per-field reducers when all of them have *)
(* finished, and the edges of the finished nodes decide the next tasks.    *)
(***************************************************************************)
EXTENDS Integers, Sequences, FiniteSets, TLC

VARIABLES
    state,      \* ResearchGraphState: the parent graph's channel values
    step,       \* supersteps of the parent graph completed so far
    status,     \* "running" | "done" | "recursion_error" | "service_error"
    tasks,      \* nodes scheduled for the current superstep
    writes,     \* node -> [upd, goto] of the tasks finished in this superstep
    seen,       \* barrier channels: join target -> predecessors finished
    br,         \* the Send tasks of the current superstep: one branch each
    ran,        \* node -> number of executions (history)
    hist,       \* history of the run: replies, completion order, prompts
    env,        \* what the external collaborators may answer in this run
    gw,         \* one call of wait_for_feedback_periodically and its thread
    wf,         \* report_agentic_workflow around the graph, and active_threads
    slack       \* utils.slack_utils: rate_limited_event and the retry loops

vars ==
    <<state, step, status, tasks, writes, seen, br, ran, hist, env, gw, wf,
      slack>>

----------------------------------------------------------------------------
(* Bounds of the model *)

\* longest analyst list the language model returns in a whole run
MaxAnalysts == 1
\* largest analyst count the reviewer asks for
MaxRequested == 2
\* most branches of a fan-out started directly at the review's acceptance
MaxBranches == 3
\* largest max_wait_time of a gateway call
MaxWait == 4
\* largest check_interval of a gateway call
MaxInterval == 3
\* most messages posted to the thread during one gateway call
MaxPosts == 2
\* longest list held by or appended to an accumulator in the reducer law
MaxLen == 2
MaxRetries == 3

(* Program constants *)
recursion_limit == 50
max_analysts_default == 3
max_num_turns_default == 4
min_len_for_closing == 4
limit_default == 100
min_limit == 10

None == "<None>"
False == "<False>"
END == "__end__"
NoUpdate == [k \in {} |-> 0]

Texts == {"", "fb1", "fb2"}
Modes == {"files", "urls", "browse"}

----------------------------------------------------------------------------
(* StateStore: schema and reducers of ResearchGraphState *)

ResearchKeys ==
    {"max_analysts", "human_analyst_feedback", "analysts", "sections",
     "introduction_str", "index_str", "content", "conclusion_str",
     "draft_report", "context", "analysis_feedback", "final_report",
     "u_input", "topic", "description", "report_type", "files_urls_browse",
     "index", "introduction", "conclusion", "source", "urls", "files",
     "browse_query", "timeout", "response_ts"}

AppendKeys_OnlyAccumulators == {"sections", "context"}

\* the fields annotated with operator.add
AppendKeys ==
    {"sections", "context", "files_urls_browse", "urls", "files",
     "browse_query"}

\* a variant that appends only what the accumulator does not hold yet
ReduceSkipsPresent(k, old, new) ==
    IF k \in AppendKeys
    THEN old \o SelectSeq(new, LAMBDA x : \A i \in 1..Len(old) : old[i] # x)
    ELSE new

ReduceNewFirst(k, old, new) == IF k \in AppendKeys THEN new \o old ELSE new

Reduce(k, old, new) == IF k \in AppendKeys THEN old \o new ELSE new

\* a partial update applied to the state; keys outside the schema are not
\* channels of the graph
Apply(s, u) ==
    [k \in DOMAIN s \cup (DOMAIN u \cap ResearchKeys) |->
        IF k \in DOMAIN u
        THEN IF k \in DOMAIN s THEN Reduce(k, s[k], u[k]) ELSE u[k]
        ELSE s[k]]

\* state.get(k, d)
Get(s, k, d) == IF k \in DOMAIN s THEN s[k] ELSE d

\* v is None, for a value of any type
IsNone(v) == ToString(v) = ToString(None)

\* a == b, for values of any two types
Same(a, b) == ToString(a) = ToString(b)

\* Python truth value of an Optional[str]
Truthy(v) == v \notin {None, False, ""}

----------------------------------------------------------------------------
(* Dispatchers (conditional edges) of the parent graph *)

Goto(n) == [goto |-> n, sends |-> <<>>]

if_timeout(s) ==
    IF Get(s, "timeout", FALSE) THEN Goto(END) ELSE Goto("create_analysts")

\* a variant that does not look at the timeout flag
check_input_complete_NoneOnly(s) ==
    IF \E k \in DOMAIN s : IsNone(s[k]) THEN Goto("extract_info")
    ELSE Goto(END)

check_input_complete(s) ==
    IF Get(s, "timeout", FALSE) THEN Goto(END)
    ELSE IF \E k \in DOMAIN s : IsNone(s[k]) THEN Goto("extract_info")
    ELSE Goto(END)

\* the payload of one Send: the state a branch starts from
SendPayload(s, analyst) ==
    [files_urls_browse |-> s["files_urls_browse"],
     urls |-> s["urls"],
     browse_query |-> s["browse_query"],
     analyst |-> analyst,
     messages |-> <<[id |-> 1, type |-> "human", name |-> None,
                     closing |-> FALSE]>>,
     context |-> <<>>]

initiate_all_interviews_AlwaysFanOut(s) ==
    IF Get(s, "timeout", FALSE) THEN Goto(END)
    ELSE [goto |-> "conduct_interview",
          sends |-> [i \in 1..Len(s["analysts"]) |->
                        SendPayload(s, s["analysts"][i])]]

initiate_all_interviews(s) ==
    IF Truthy(Get(s, "human_analyst_feedback", None))
    THEN Goto("create_analysts")
    ELSE IF Get(s, "timeout", FALSE) THEN Goto(END)
    ELSE [goto |-> "conduct_interview",
          sends |-> [i \in 1..Len(s["analysts"]) |->
                        SendPayload(s, s["analysts"][i])]]

----------------------------------------------------------------------------
(* Intake sub-graph: InputGraphState and its two nodes *)

InputKeys ==
    {"u_input", "topic", "description", "report_type", "files_urls_browse",
     "index", "introduction", "conclusion", "source", "urls", "files",
     "browse_query", "timeout"}

\* every field of InputGraphState is overwritten by a node's update
InputApply(s, u) ==
    [k \in DOMAIN s \cup (DOMAIN u \cap InputKeys) |->
        IF k \in DOMAIN u THEN u[k] ELSE s[k]]

\* extract_info: the structured output x of the language model, and the
\* names of the stored documents when the mode already is "files"
extract_info(s, x, has_docs) ==
    [topic |-> x.topic, description |-> "description",
     report_type |-> "report_type",
     files_urls_browse |-> x.files_urls_browse,
     index |-> "index", introduction |-> "introduction",
     conclusion |-> "conclusion", source |-> "source",
     urls |-> x.urls,
     files |-> IF Same(Get(s, "files_urls_browse", None), <<"files">>)
                  /\ has_docs
               THEN <<"doc1">> ELSE Get(s, "files", None),
     browse_query |-> x.browse_query]

\* the fields ask_user_for_info_with_ai does not ask for in the state's mode
NotAsked(s) ==
    LET mode == Get(s, "files_urls_browse", None)
    IN IF Same(mode, <<"files">>) THEN {"urls", "browse_query"}
       ELSE IF Same(mode, <<"urls">>) THEN {"files", "browse_query"}
       ELSE IF Same(mode, <<"browse">>) THEN {"files", "urls"}
       ELSE {}

ask_user_for_info_with_ai_TimeoutAsReply(s, text, field, update_text) ==
    LET missing0 == {k \in DOMAIN s : IsNone(s[k])}
        s2 == IF missing0 # {}
              THEN [k \in DOMAIN s \cup NotAsked(s) |->
                       IF k \in NotAsked(s) THEN False ELSE s[k]]
              ELSE s
        filled_fields ==
            [k \in {j \in DOMAIN s2 : ~IsNone(s2[j]) /\ j # "u_input"} |->
                s2[k]]
    IN IF missing0 \ NotAsked(s) # {} THEN [u_input |-> "q_and_a"]
       ELSE IF ~Truthy(update_text) THEN filled_fields
       ELSE (field :> None)

\* ask_user_for_info_with_ai, given the gateway's text and, for the
\* confirmation, the (field, update_text) the language model reads from it
ask_user_for_info_with_ai(s, text, field, update_text) ==
    LET missing0 == {k \in DOMAIN s : IsNone(s[k])}
        s2 == IF missing0 # {}
              THEN [k \in DOMAIN s \cup NotAsked(s) |->
                       IF k \in NotAsked(s) THEN False ELSE s[k]]
              ELSE s
        filled_fields ==
            [k \in {j \in DOMAIN s2 : ~IsNone(s2[j]) /\ j # "u_input"} |->
                s2[k]]
    IN IF missing0 \ NotAsked(s) # {}
       THEN IF text = False THEN [timeout |-> TRUE]
            ELSE [u_input |-> "q_and_a"]
       ELSE IF text = False THEN [timeout |-> TRUE]
       ELSE IF ~Truthy(update_text) THEN filled_fields
       ELSE (field :> None)

\* which of the two questions the node asks in state s
AsksFor(s) ==
    IF {k \in DOMAIN s : IsNone(s[k])} \ NotAsked(s) # {}
    THEN "question" ELSE "confirmation"

----------------------------------------------------------------------------
(* Edge table of the parent graph *)

\* a variant with a second edge from draft_report_gen, past the analysis
StaticEdges_DraftAlsoToFinal ==
    [n \in {"create_analysts", "send_slack", "conduct_interview",
            "write_report", "draft_report_gen", "analyse_report",
            "final_report_gen"} |->
        CASE n = "create_analysts" -> {"send_slack"}
          [] n = "send_slack" -> {"human_feedback"}
          [] n = "conduct_interview" -> {"write_report"}
          [] n = "write_report" -> {"write_introduction", "write_conclusion"}
          [] n = "draft_report_gen" -> {"analyse_report", "final_report_gen"}
          [] n = "analyse_report" -> {"final_report_gen"}
          [] n = "final_report_gen" -> {}]

\* add_edge(a, b) with a single start node
StaticEdges ==
    [n \in {"create_analysts", "send_slack", "conduct_interview",
            "write_report", "draft_report_gen", "analyse_report",
            "final_report_gen"} |->
        CASE n = "create_analysts" -> {"send_slack"}
          [] n = "send_slack" -> {"human_feedback"}
          [] n = "conduct_interview" -> {"write_report"}
          [] n = "write_report" -> {"write_introduction", "write_conclusion"}
          [] n = "draft_report_gen" -> {"analyse_report"}
          [] n = "analyse_report" -> {"final_report_gen"}
          [] n = "final_report_gen" -> {}]

\* add_edge([a, b, ...], t): t waits for all of the listed nodes
JoinEdgesFirstArrival ==
    [t \in {"write_index", "draft_report_gen"} |->
        IF t = "write_index"
        THEN {"write_report"}
        ELSE {"write_conclusion", "write_report", "write_introduction",
              "write_index"}]

JoinEdges ==
    [t \in {"write_index", "draft_report_gen"} |->
        IF t = "write_index"
        THEN {"write_conclusion", "write_report", "write_introduction"}
        ELSE {"write_conclusion", "write_report", "write_introduction",
              "write_index"}]

\* the order in which the updates of one superstep's tasks are merged
NodeOrder ==
    <<"analyse_report", "create_analysts", "draft_report_gen",
      "final_report_gen", "gather_info", "human_feedback", "send_slack",
      "write_conclusion", "write_index", "write_introduction",
      "write_report">>

Nodes == {NodeOrder[i] : i \in 1..Len(NodeOrder)} \cup {"conduct_interview"}

----------------------------------------------------------------------------
(* Interview sub-graph: InterviewState, its reducers and its nodes *)

\* add_messages: a returned message replaces the one with its id, a new one
\* is appended
AddMessages(left, right) ==
    LET ids == {left[i].id : i \in 1..Len(left)}
        pick(i) == IF \E j \in 1..Len(right) : right[j].id = left[i].id
                   THEN right[CHOOSE j \in 1..Len(right) :
                                  right[j].id = left[i].id]
                   ELSE left[i]
    IN [i \in 1..Len(left) |-> pick(i)]
       \o SelectSeq(right, LAMBDA m : m.id \notin ids)

\* a node's update merged into the branch state
BranchApply(st, u) ==
    [k \in DOMAIN st \cup DOMAIN u |->
        IF k \in DOMAIN u
        THEN IF k \in DOMAIN st
             THEN IF k = "messages" THEN AddMessages(st[k], u[k])
                  ELSE IF k = "context" THEN st[k] \o u[k]
                  ELSE u[k]
             ELSE u[k]
        ELSE st[k]]

Contains(seq, x) == \E i \in 1..Len(seq) : seq[i] = x

\* generate_question: the question is appended to the transcript
generate_question(st, closing) ==
    [messages |->
        Append(st["messages"],
               [id |-> Len(st["messages"]) + 1, type |-> "ai",
                name |-> None, closing |-> closing])]

\* a variant that re-evaluates the choice each turn from the evidence
\* gathered so far
determine_search_path_ByEvidence(st) ==
    LET choice == Get(st, "files_urls_browse", <<>>)
    IN IF st["context"] # <<>> THEN "read_information"
       ELSE IF Contains(choice, "browse") \/ Contains(choice, "urls")
       THEN "search_web"
       ELSE IF Contains(choice, "files") THEN "read_information"
       ELSE None

\* determine_search_path: substring tests on files_urls_browse
determine_search_path(st) ==
    LET choice == Get(st, "files_urls_browse", <<>>)
    IN IF Contains(choice, "browse") \/ Contains(choice, "urls")
       THEN "search_web"
       ELSE IF Contains(choice, "files") THEN "read_information"
       ELSE None

\* the stored documents already recorded in the branch's context
ProcessedFiles(context) ==
    {context[i].name : i \in {j \in 1..Len(context) :
                                  context[j].kind = "doc"}}

\* a variant that returns the context whether or not anything was found
read_files_AlwaysReturnsContext(st, stored, raises) ==
    LET new == SelectSeq(stored,
                   LAMBDA d : d \notin ProcessedFiles(st["context"]))
    IN [context |->
           st["context"] \o [i \in 1..Len(new) |->
                               [kind |-> "doc", name |-> new[i]]]]

\* read_files: the documents of the thread not yet in the context; the list
\* taken from the state is extended in place and returned
read_files(st, stored, raises) ==
    LET new == SelectSeq(stored,
                   LAMBDA d : d \notin ProcessedFiles(st["context"]))
    IN IF raises \/ new = <<>> THEN NoUpdate
       ELSE [context |->
                st["context"] \o [i \in 1..Len(new) |->
                                    [kind |-> "doc", name |-> new[i]]]]

\* the URLs already recorded in the branch's context
ProcessedUrls(context) ==
    {context[i].name : i \in {j \in 1..Len(context) :
                                  context[j].kind = "url"}}

\* search_web: with URLs in the state, the pages of those not yet in the
\* context (a page that cannot be fetched adds nothing); without, one list
\* of search results per turn
search_web(st, fetched, found) ==
    LET urls == Get(st, "urls", <<>>)
        new_urls == SelectSeq(urls,
                        LAMBDA u : u \notin ProcessedUrls(st["context"]))
        pages == SelectSeq(new_urls, LAMBDA u : u \in fetched)
    IN IF urls # <<>>
       THEN IF new_urls = <<>> THEN NoUpdate
            ELSE [context |-> [i \in 1..Len(pages) |->
                                 [kind |-> "url", name |-> pages[i]]]]
       ELSE [context |-> <<[kind |-> "web", name |-> found]>>]

\* a variant that answers twice
generate_answer_Twice(st) ==
    [messages |->
        st["messages"]
        \o <<[id |-> Len(st["messages"]) + 1, type |-> "ai",
              name |-> "expert", closing |-> FALSE],
             [id |-> Len(st["messages"]) + 2, type |-> "ai",
              name |-> "expert", closing |-> FALSE]>>]

\* generate_answer: the expert's answer is appended to the transcript
generate_answer(st) ==
    [messages |->
        Append(st["messages"],
               [id |-> Len(st["messages"]) + 1, type |-> "ai",
                name |-> "expert", closing |-> FALSE])]

NumResponses(messages) ==
    Cardinality({i \in 1..Len(messages) :
                    messages[i].type = "ai" /\ messages[i].name = "expert"})

route_messages_StrictlyMore(st) ==
    LET messages == st["messages"]
        max_num_turns == Get(st, "max_num_turns", max_num_turns_default)
    IN IF NumResponses(messages) > max_num_turns THEN "save_interview"
       ELSE IF Len(messages) >= min_len_for_closing
               /\ messages[Len(messages) - 1].closing
       THEN "save_interview"
       ELSE "ask_question"

\* route_messages: after an answer, save the interview or ask again
route_messages(st) ==
    LET messages == st["messages"]
        max_num_turns == Get(st, "max_num_turns", max_num_turns_default)
    IN IF NumResponses(messages) >= max_num_turns THEN "save_interview"
       ELSE IF Len(messages) >= min_len_for_closing
               /\ messages[Len(messages) - 1].closing
       THEN "save_interview"
       ELSE "ask_question"

\* save_interview: the transcript as one string
save_interview(st) == [interview |-> st["messages"]]

write_section_TwoSections(st) ==
    [sections |-> <<[by |-> st["analyst"]], [by |-> st["analyst"]]>>]

\* write_section: one section per branch, written for the branch's analyst
write_section(st) == [sections |-> <<[by |-> st["analyst"]]>>]

\* what the finished sub-graph hands to the parent: its state's values
BranchOutput(st) == st

----------------------------------------------------------------------------
(* Human-sync gateway: capture_human_feedback and                          *)
(* wait_for_feedback_periodically                                          *)

Bot == "U_BOT"
Human == "U_USER"

\* a Slack timestamp is a string of fixed width (two digits here); the code
\* compares two of them as strings
TsStr(n) == <<n \div 10, n % 10>>

RECURSIVE StrGreaterFrom(_, _, _)
StrGreaterFrom(a, b, i) ==
    IF i > Len(a) \/ i > Len(b) THEN Len(a) > Len(b)
    ELSE IF a[i] # b[i] THEN a[i] > b[i]
    ELSE StrGreaterFrom(a, b, i + 1)

\* a > b on strings
StrGreater(a, b) == StrGreaterFrom(a, b, 1)

QualifiesAnyAuthor(m, thread_ts, bot, latest_ts) ==
    /\ m.user # None
    /\ m.ts # thread_ts
    /\ (latest_ts = None \/ StrGreater(m.ts, latest_ts))

\* the filter of capture_human_feedback
Qualifies(m, thread_ts, bot, latest_ts) ==
    /\ m.user # None
    /\ m.user # bot
    /\ m.ts # thread_ts
    /\ (latest_ts = None \/ StrGreater(m.ts, latest_ts))

LastQualifyingSkipsNewest(thread, thread_ts, bot, latest_ts) ==
    LET q == {i \in 1..(Len(thread) - 1) :
                 Qualifies(thread[i], thread_ts, bot, latest_ts)}
    IN IF q = {} THEN 0 ELSE CHOOSE i \in q : \A j \in q : j <= i

\* a variant that walks the replies from the oldest to the newest
LastQualifyingOldestFirst(thread, thread_ts, bot, latest_ts) ==
    LET q == {i \in 1..Len(thread) :
                 Qualifies(thread[i], thread_ts, bot, latest_ts)}
    IN IF q = {} THEN 0 ELSE CHOOSE i \in q : \A j \in q : i <= j

\* capture_human_feedback walks the replies from the newest to the oldest
\* and stops at the first that qualifies: 0 when there is none
LastQualifying(thread, thread_ts, bot, latest_ts) ==
    LET q == {i \in 1..Len(thread) :
                 Qualifies(thread[i], thread_ts, bot, latest_ts)}
    IN IF q = {} THEN 0 ELSE CHOOSE i \in q : \A j \in q : j <= i

WaitLoopStopsEarly(elapsed_time, max_wait_time) ==
    elapsed_time + 1 < max_wait_time

\* the condition of the polling loop
WaitLoop(elapsed_time, max_wait_time) == elapsed_time < max_wait_time

TimeoutNotices_EveryInterval(sleeps) == sleeps

\* the timeout notifications a call has posted when its loop has ended
\* after the given number of sleeps: one, after the loop
TimeoutNotices(sleeps) == 1

----------------------------------------------------------------------------
(* Nodes of the parent graph: the partial update each returns *)

\* the list the language model returns: n analysts of generation g
NewAnalysts(g, n) == [i \in 1..n |-> [id |-> i, gen |-> g]]

\* the compiled intake graph as a node: its final state, with the abort flag
\* when one of its gateway waits timed out. A string is the sequence of its
\* parts; the False that stands in urls, files and browse_query for "not
\* asked in this mode" is written <<>>, falsy like it and like it unchanged
\* by operator.add with itself (False + False == False)
gather_info(s, out) ==
    IF out = "timeout" THEN [timeout |-> TRUE]
    ELSE [topic |-> "topic", description |-> "description",
          files_urls_browse |-> <<out>>,
          urls |-> IF out = "urls" THEN <<"url1", "url2">> ELSE <<>>,
          files |-> IF out = "files" THEN <<"doc1">> ELSE <<>>,
          browse_query |-> IF out = "browse" THEN <<"query">> ELSE <<>>]

\* a variant that keeps the analysts of the previous round
create_analysts_Appends(s, analysts) ==
    IF Get(s, "timeout", FALSE) THEN [analysts |-> <<>>]
    ELSE [analysts |-> Get(s, "analysts", <<>>) \o analysts]

create_analysts(s, analysts) ==
    IF Get(s, "timeout", FALSE) THEN [analysts |-> <<>>]
    ELSE [analysts |-> analysts]

\* slack_sender returns nothing
slack_sender(s) == NoUpdate

human_feedback_KeepsCount(s, feedback_text, max_analysts) ==
    IF feedback_text = None
    THEN [human_analyst_feedback |-> None, response_ts |-> "ts"]
    ELSE IF feedback_text = False THEN [timeout |-> TRUE]
    ELSE [human_analyst_feedback |-> feedback_text]

human_feedback_TimeoutAsAccept(s, feedback_text, max_analysts) ==
    IF feedback_text = None \/ feedback_text = False
    THEN [human_analyst_feedback |-> None, response_ts |-> "ts"]
    ELSE [human_analyst_feedback |-> feedback_text,
          max_analysts |-> max_analysts]

\* human_feedback, given the gateway's result (feedback_text, max_analysts)
human_feedback(s, feedback_text, max_analysts) ==
    IF feedback_text = None
    THEN [human_analyst_feedback |-> None, response_ts |-> "ts"]
    ELSE IF feedback_text = False THEN [timeout |-> TRUE]
    ELSE [human_analyst_feedback |-> feedback_text,
          max_analysts |-> max_analysts]

write_report(s) == [content |-> "content"]
write_introduction(s) == [introduction_str |-> "introduction"]
write_conclusion(s) == [conclusion_str |-> "conclusion"]
write_index(s) == [index_str |-> "index"]
draft_report(s) == [draft_report |-> "draft"]
analyse_report(s) == [analysis_feedback |-> "analysis"]
final_report(s) == [final_report |-> "final"]

----------------------------------------------------------------------------
(* Graph runtime: one superstep's tasks, the merge of their updates, the    *)
(* edges followed afterwards and the step ceiling                          *)

RECURSIVE ApplyAll(_, _, _)
ApplyAll(s, names, w) ==
    IF names = <<>> THEN s
    ELSE ApplyAll(IF Head(names) \in DOMAIN w
                  THEN Apply(s, w[Head(names)].upd) ELSE s,
                  Tail(names), w)

\* the branches' outputs are merged in the order of the Send list
RECURSIVE ApplyBranches(_, _, _)
ApplyBranches(s, i, b) ==
    IF i > Len(b) THEN s
    ELSE ApplyBranches(Apply(s, BranchOutput(b[i].st)), i + 1, b)

AllBranchesDone(b) == \A i \in 1..Len(b) : b[i].pc = END

\* the barrier channels once the nodes fin have reported
SeenAfter(fin) ==
    [t \in DOMAIN JoinEdges |-> seen[t] \cup (fin \cap JoinEdges[t])]

\* a join target runs when every listed predecessor has reported
Triggered(fin) ==
    {t \in DOMAIN JoinEdges :
        /\ fin \cap JoinEdges[t] # {}
        /\ JoinEdges[t] \subseteq SeenAfter(fin)[t]}

\* the number of sources, nodes w and branches b of one superstep, whose
\* update has a value for field k
Writers(k, w, b) ==
    Cardinality({n \in DOMAIN w : k \in DOMAIN w[n].upd})
    + Cardinality({i \in 1..Len(b) : k \in DOMAIN BranchOutput(b[i].st)})

\* the fields without reducer that more than one source writes in the step
Conflicts(w, b) ==
    {k \in ResearchKeys \ AppendKeys : Writers(k, w, b) > 1}

\* the step ceiling: no superstep runs beyond the recursion limit
CeilingReached(n) == n >= recursion_limit

Commit(w, b, h) ==
    LET fin == DOMAIN w \cup
               (IF Len(b) > 0 THEN {"conduct_interview"} ELSE {})
        merged == ApplyBranches(ApplyAll(state, NodeOrder, w), 1, b)
        static == UNION {StaticEdges[n] : n \in fin \cap DOMAIN StaticEdges}
        gotos == {w[n].goto : n \in DOMAIN w} \ {END, None, "conduct_interview"}
        fan == IF "human_feedback" \in DOMAIN w
               THEN w["human_feedback"].sends ELSE <<>>
        nt == static \cup gotos \cup Triggered(fin)
        st == IF nt = {} /\ fan = <<>> THEN "done"
              ELSE IF CeilingReached(step + 1) THEN "recursion_error"
              ELSE "running"
    IN /\ state' = merged
       /\ step' = step + 1
       /\ status' = st
       /\ tasks' = IF st = "running" THEN nt ELSE {}
       /\ br' = IF st = "running"
                THEN [i \in 1..Len(fan) |->
                        [pc |-> "ask_question", st |-> fan[i]]]
                ELSE <<>>
       /\ writes' = NoUpdate
       /\ seen' = [t \in DOMAIN JoinEdges |->
                    IF t \in Triggered(fin) THEN {} ELSE SeenAfter(fin)[t]]
       /\ hist' = [h EXCEPT
                    !.conflicts = @ \cup Conflicts(w, b),
                    !.atFanOut = IF st = "running" /\ Len(fan) > 0
                                 THEN merged ELSE @,
                    !.started = @ + (IF st = "running" THEN Len(fan) ELSE 0),
                    !.joined = @ + (IF Len(b) > 0 THEN 1 ELSE 0),
                    !.n_joined = IF Len(b) > 0 THEN Len(b) ELSE @]

\* task n of the current superstep finishes with update upd; d is what its
\* conditional edge returned
Finish(n, upd, d, h) ==
    LET w == writes @@ (n :> [upd |-> upd, goto |-> d.goto,
                              sends |-> d.sends])
    IN /\ ran' = [ran EXCEPT ![n] = @ + 1]
       /\ IF DOMAIN w = tasks /\ AllBranchesDone(br)
          THEN Commit(w, br, h)
          ELSE /\ writes' = w
               /\ hist' = h
               /\ UNCHANGED <<state, step, status, tasks, seen, br>>

NoEdge == Goto(None)

Ready(n) == status = "running" /\ n \in tasks /\ n \notin DOMAIN writes

----------------------------------------------------------------------------
(* Actions: the nodes of the parent graph *)

a_gather_info ==
    /\ Ready("gather_info")
    /\ \E out \in {"timeout"} \cup env.modes :
        LET upd == gather_info(state, out)
        IN Finish("gather_info", upd, if_timeout(Apply(state, upd)),
                  [hist EXCEPT !.timedOut = @ \/ out = "timeout"])
    /\ UNCHANGED <<env, gw, wf, slack>>

a_create_analysts ==
    /\ Ready("create_analysts")
    /\ \E n \in 0..MaxAnalysts :
        Finish("create_analysts",
               create_analysts(state,
                   NewAnalysts(ran["create_analysts"] + 1, n)),
               NoEdge,
               [hist EXCEPT !.prompt =
                    IF Get(state, "timeout", FALSE) THEN @
                    ELSE [feedback |->
                            Get(state, "human_analyst_feedback", ""),
                          max_analysts |-> state["max_analysts"]]])
    /\ UNCHANGED <<env, gw, wf, slack>>

a_send_slack ==
    /\ Ready("send_slack")
    /\ Finish("send_slack", slack_sender(state), NoEdge, hist)
    /\ UNCHANGED <<env, gw, wf, slack>>

a_human_feedback ==
    /\ Ready("human_feedback")
    /\ \E feedback_text \in env.replies, max_analysts \in 1..MaxRequested :
        LET upd == human_feedback(state, feedback_text, max_analysts)
        IN Finish("human_feedback", upd,
                  initiate_all_interviews(Apply(state, upd)),
                  [hist EXCEPT
                     !.reviews = @ + 1,
                     !.lastReply = feedback_text,
                     !.lastUpdate = upd, !.site = "review",
                     !.lastCount = max_analysts,
                     !.lastDispatch =
                         initiate_all_interviews(Apply(state, upd)).goto,
                     !.allFeedback = @ /\ Truthy(feedback_text),
                     !.timedOut = @ \/ feedback_text = False])
    /\ UNCHANGED <<env, gw, wf, slack>>

a_write_report ==
    /\ Ready("write_report")
    /\ Finish("write_report", write_report(state), NoEdge, hist)
    /\ UNCHANGED <<env, gw, wf, slack>>

a_write_introduction ==
    /\ Ready("write_introduction")
    /\ Finish("write_introduction", write_introduction(state), NoEdge, hist)
    /\ UNCHANGED <<env, gw, wf, slack>>

a_write_conclusion ==
    /\ Ready("write_conclusion")
    /\ Finish("write_conclusion", write_conclusion(state), NoEdge, hist)
    /\ UNCHANGED <<env, gw, wf, slack>>

a_write_index ==
    /\ Ready("write_index")
    /\ Finish("write_index", write_index(state), NoEdge, hist)
    /\ UNCHANGED <<env, gw, wf, slack>>

a_draft_report_gen ==
    /\ Ready("draft_report_gen")
    /\ Finish("draft_report_gen", draft_report(state), NoEdge, hist)
    /\ UNCHANGED <<env, gw, wf, slack>>

a_analyse_report ==
    /\ Ready("analyse_report")
    /\ Finish("analyse_report", analyse_report(state), NoEdge, hist)
    /\ UNCHANGED <<env, gw, wf, slack>>

a_final_report_gen ==
    /\ Ready("final_report_gen")
    /\ Finish("final_report_gen", final_report(state), NoEdge, hist)
    /\ UNCHANGED <<env, gw, wf, slack>>

----------------------------------------------------------------------------
(* Actions: the nodes of one interview branch (a Send task of the parent's *)
(* current superstep)                                                      *)

At(b, pc) == status = "running" /\ b \in 1..Len(br) /\ br[b].pc = pc

\* a variant in which the branches share one transcript
BranchStep_SharedTranscript(b, st, next, h) ==
    LET nb == [i \in 1..Len(br) |->
                 IF i = b THEN [pc |-> next, st |-> st]
                 ELSE [br[i] EXCEPT !.st["messages"] = st["messages"]]]
    IN /\ br' = nb
       /\ hist' = h
       /\ ran' = ran
       /\ UNCHANGED <<state, step, status, tasks, writes, seen>>

\* branch b's node has run: st is the branch state with the node's update
\* merged, next the node its edge leads to, h the record of the run so far
BranchStep(b, st, next, h) ==
    LET nb == [br EXCEPT ![b] = [pc |-> next, st |-> st]]
    IN IF next = END /\ AllBranchesDone(nb) /\ DOMAIN writes = tasks
       THEN /\ Commit(writes, nb,
                      [h EXCEPT !.order = Append(@, b)])
            /\ ran' = [ran EXCEPT !["conduct_interview"] = @ + 1]
       ELSE /\ br' = nb
            /\ hist' = IF next = END
                       THEN [h EXCEPT !.order = Append(@, b)] ELSE h
            /\ ran' = IF next = END
                      THEN [ran EXCEPT !["conduct_interview"] = @ + 1]
                      ELSE ran
            /\ UNCHANGED <<state, step, status, tasks, writes, seen>>

\* the record of branch b's evidence fetch: the node that ran and whether
\* the storage query raised
Fetched(b, node, raises) ==
    [branch |-> b, node |-> node, raised |-> raises]

a_ask_question(b) ==
    /\ At(b, "ask_question")
    /\ \E closing \in env.closing :
        LET st == BranchApply(br[b].st,
                              generate_question(br[b].st, closing))
        IN BranchStep(b, st, determine_search_path(st),
                      [hist EXCEPT
                         !.routes = @ \cup
                                    {<<b, determine_search_path(st)>>}])
    /\ UNCHANGED <<env, gw, wf, slack>>

a_read_information(b) ==
    /\ At(b, "read_information")
    /\ \E raises \in env.raises :
        LET u == read_files(br[b].st, env.stored, raises)
            \* the list extended in place is the one the state holds
            cur == IF env.aliased /\ "context" \in DOMAIN u
                   THEN [br[b].st EXCEPT !["context"] = u["context"]]
                   ELSE br[b].st
        IN BranchStep(b, BranchApply(cur, u), "answer_question",
                      [hist EXCEPT
                         !.fetch = Fetched(b, "read_information", raises)])
    /\ UNCHANGED <<env, gw, wf, slack>>

a_search_web(b) ==
    /\ At(b, "search_web")
    /\ LET u == search_web(br[b].st, env.fetched, "result")
       IN BranchStep(b, BranchApply(br[b].st, u), "answer_question",
                     [hist EXCEPT
                        !.fetch = Fetched(b, "search_web", FALSE)])
    /\ UNCHANGED <<env, gw, wf, slack>>

a_answer_question(b) ==
    /\ At(b, "answer_question")
    /\ LET st == BranchApply(br[b].st, generate_answer(br[b].st))
       IN BranchStep(b, st, route_messages(st), hist)
    /\ UNCHANGED <<env, gw, wf, slack>>

a_save_interview(b) ==
    /\ At(b, "save_interview")
    /\ BranchStep(b, BranchApply(br[b].st, save_interview(br[b].st)),
                  "write_section", hist)
    /\ UNCHANGED <<env, gw, wf, slack>>

a_write_section(b) ==
    /\ At(b, "write_section")
    /\ BranchStep(b, BranchApply(br[b].st, write_section(br[b].st)), END,
                  hist)
    /\ UNCHANGED <<env, gw, wf, slack>>

----------------------------------------------------------------------------
(* utils.slack_utils: send_message_with_retry, get_thread_messages_async,  *)
(* handle_rate_limit and the module's rate_limited_event                   *)

\* a variant that sleeps after every failed attempt
send_message_with_retry_SleepsAlways(s, ok) ==
    IF ok THEN [s EXCEPT !.pc = "returned", !.posts = @ + 1]
    ELSE [s EXCEPT !.pc = "sleep", !.posts = @ + 1, !.attempt = @ + 1]

\* one pass of the loop of send_message_with_retry: chat_postMessage
\* succeeds (ok) or raises SlackApiError
send_message_with_retry(s, ok) ==
    IF ok THEN [s EXCEPT !.pc = "returned", !.posts = @ + 1]
    ELSE IF s.attempt + 1 < s.max_retries
    THEN [s EXCEPT !.pc = "sleep", !.posts = @ + 1, !.attempt = @ + 1]
    ELSE [s EXCEPT !.pc = "raised", !.posts = @ + 1, !.attempt = @ + 1]

\* the test of the loop, entered for the first time or after a sleep
send_loop(s) ==
    IF s.attempt < s.max_retries THEN [s EXCEPT !.pc = "post"]
    ELSE [s EXCEPT !.pc = "returned"]

Max(a, b) == IF a > b THEN a ELSE b

\* get_thread_messages_async from the test of its loop to the request: the
\* wait on rate_limited_event is made only when the event is set, and the
\* wait of an asyncio.Event that is set returns at once
get_thread_messages_async(c, rate_limited_event) ==
    IF c.retries < c.max_retries
    THEN [c EXCEPT !.pc = "request", !.attempts = @ + 1,
                   !.event_at_request = rate_limited_event]
    ELSE [c EXCEPT !.pc = "raised"]

\* the except clauses of get_thread_messages_async
on_failure(c, failure) ==
    CASE failure = "IncompleteRead" ->
            [c EXCEPT !.pc = "backoff", !.retries = @ + 1,
                      !.limit = Max(min_limit, @ \div 2)]
      [] failure = "ratelimited" ->
            [c EXCEPT !.pc = "pause", !.retries = @ + 1]
      [] OTHER ->
            [c EXCEPT !.pc = "backoff", !.retries = @ + 2]

Call0(max_retries) ==
    [pc |-> "start", retries |-> 0, attempts |-> 0, limit |-> limit_default,
     max_retries |-> max_retries, event_at_request |-> FALSE,
     failures |-> {}]

Send0(max_retries) ==
    [pc |-> "start", attempt |-> 0, posts |-> 0, sleeps |-> 0,
     max_retries |-> max_retries]

Slack0 ==
    [rate_limited_event |-> FALSE, rate_limit_active |-> FALSE,
     calls |-> <<>>, send |-> Send0(0)]

----------------------------------------------------------------------------
(* Specification of a whole run of report_agentic_workflow *)

Hist0 ==
    [reviews |-> 0, lastReply |-> None, lastDispatch |-> None,
     lastUpdate |-> NoUpdate, site |-> None, lastCount |-> 0,
     atFanOut |-> NoUpdate, conflicts |-> {},
     allFeedback |-> TRUE,
     timedOut |-> FALSE, started |-> 0, joined |-> 0, n_joined |-> 0,
     order |-> <<>>, fetch |-> None, routes |-> {},
     old |-> <<>>, applied |-> <<>>, intake |-> NoUpdate,
     prompt |-> [feedback |-> None, max_analysts |-> 0]]

Gw0 == [pc |-> "idle"]

\* the thread of the run and another thread of the workspace
ThreadTs == "t1"
OtherTs == "t2"

\* report_agentic_workflow has been called for ThreadTs, which the command
\* registered with enter_agentic_workflow before
Wf0 ==
    [pc |-> "invoke", active_threads |-> {ThreadTs}, chat_updates |-> 0,
     rendered |-> 0, delivered |-> 0, event |-> <<>>]

\* the collaborators of a whole run: the reviewer may accept, send feedback
\* or stay silent; interviews use stored documents or web search
EnvRun ==
    [modes |-> Modes, replies |-> {None, False} \cup Texts,
     closing |-> {FALSE}, raises |-> {FALSE}, stored |-> <<"doc1">>,
     fetched |-> {"url1", "url2"}, aliased |-> TRUE]

\* the input of graph.invoke, with the APPEND accumulators empty
State0 ==
    [u_input |-> "input", max_analysts |-> max_analysts_default,
     sections |-> <<>>, context |-> <<>>]

\* graph.invoke(input_dict, config) begins, with collaborators e
InitRun(e) ==
    /\ state = State0
    /\ step = 0
    /\ status = "running"
    /\ tasks = {"gather_info"}
    /\ writes = NoUpdate
    /\ seen = [t \in DOMAIN JoinEdges |-> {}]
    /\ br = <<>>
    /\ ran = [n \in Nodes |-> 0]
    /\ hist = Hist0
    /\ env = e
    /\ gw = Gw0
    /\ wf = Wf0
    /\ slack = Slack0

Init == InitRun(EnvRun)

BranchNext ==
    \E b \in 1..MaxBranches :
        \/ a_ask_question(b)
        \/ a_read_information(b)
        \/ a_search_web(b)
        \/ a_answer_question(b)
        \/ a_save_interview(b)
        \/ a_write_section(b)

Next ==
    \/ a_gather_info
    \/ a_create_analysts
    \/ a_send_slack
    \/ a_human_feedback
    \/ a_write_report
    \/ a_write_introduction
    \/ a_write_conclusion
    \/ a_write_index
    \/ a_draft_report_gen
    \/ a_analyse_report
    \/ a_final_report_gen
    \/ BranchNext

Spec == Init /\ [][Next]_vars

----------------------------------------------------------------------------
(* Specification of one gateway call: the polling loop, with the reviewer, *)
(* the bot and others posting to the thread while it waits                 *)

\* the thread when the wait begins: its root, an earlier reply of the
\* reviewer, and the bot's question, whose ts is the marker latest_ts
Thread0 ==
    <<[user |-> Human, at |-> 8, ts |-> TsStr(8)],
      [user |-> Human, at |-> 9, ts |-> TsStr(9)],
      [user |-> Bot, at |-> 10, ts |-> TsStr(10)]>>

GwCall(T, I, for) ==
    [pc |-> "poll", max_wait_time |-> T, check_interval |-> I,
     state |-> for, elapsed_time |-> 0, polls |-> 0, sleeps |-> 0,
     thread |-> Thread0, thread_ts |-> Thread0[1].ts,
     latest_ts |-> Thread0[3].ts, marker_at |-> Thread0[3].at,
     clock |-> Thread0[3].at, posts |-> 0, notices |-> 0,
     fetched |-> FALSE, seen_len |-> 0,
     found |-> FALSE, msg |-> 0, text |-> None, max_analysts |-> None]

InitGateway ==
    /\ state = State0
    /\ step = 0
    /\ status = "gateway"
    /\ tasks = {}
    /\ writes = NoUpdate
    /\ seen = [t \in DOMAIN JoinEdges |-> {}]
    /\ br = <<>>
    /\ ran = [n \in Nodes |-> 0]
    /\ hist = Hist0
    /\ env = EnvRun
    /\ \E T \in 1..MaxWait, I \in 1..MaxInterval, for \in {"info", "analysts"} :
        gw = GwCall(T, I, for)
    /\ wf = Wf0
    /\ slack = Slack0

\* somebody posts to the thread while the gateway waits
gw_post ==
    /\ gw.pc \in {"poll", "sleep"}
    /\ gw.posts < MaxPosts
    /\ \E user \in {Bot, Human, None} :
        gw' = [gw EXCEPT
                 !.clock = @ + 1, !.posts = @ + 1,
                 !.thread = Append(@, [user |-> user, at |-> gw.clock + 1,
                                       ts |-> TsStr(gw.clock + 1)])]
    /\ UNCHANGED <<state, step, status, tasks, writes, seen, br, ran, hist,
                   env, wf, slack>>

\* one capture_human_feedback: conversations_replies may fail, which is
\* logged and counts as nothing found; in state "analysts" the language
\* model splits the reply into feedback text and analyst count
gw_poll ==
    /\ gw.pc = "poll"
    /\ \E fails \in BOOLEAN, text \in {None} \cup Texts,
          n \in 1..MaxRequested :
        LET i == IF fails THEN 0
                 ELSE LastQualifying(gw.thread, gw.thread_ts, Bot,
                                     gw.latest_ts)
        IN gw' = IF i = 0
                 THEN [gw EXCEPT !.pc = "sleep", !.polls = @ + 1,
                                 !.fetched = ~fails,
                                 !.seen_len = Len(gw.thread)]
                 ELSE [gw EXCEPT
                         !.pc = "returned", !.polls = @ + 1,
                         !.fetched = TRUE, !.seen_len = Len(gw.thread),
                         !.found = TRUE, !.msg = i,
                         !.text = IF gw.state = "analysts" THEN text
                                  ELSE "user_message",
                         !.max_analysts = IF gw.state = "analysts" THEN n
                                          ELSE None]
    /\ UNCHANGED <<state, step, status, tasks, writes, seen, br, ran, hist,
                   env, wf, slack>>

\* time.sleep(check_interval), then the loop's test: when it fails the
\* timeout notice is sent (send_message_with_retry raises when every attempt
\* fails) and (False, None) returned
gw_sleep ==
    /\ gw.pc = "sleep"
    /\ \E sent \in BOOLEAN :
        LET e == gw.elapsed_time + gw.check_interval
            n == TimeoutNotices(gw.sleeps + 1)
        IN gw' = IF WaitLoop(e, gw.max_wait_time)
                 THEN [gw EXCEPT !.pc = "poll", !.elapsed_time = e,
                                 !.sleeps = @ + 1]
                 ELSE IF ~sent
                 THEN [gw EXCEPT !.pc = "raised", !.elapsed_time = e,
                                 !.sleeps = @ + 1]
                 ELSE [gw EXCEPT
                         !.pc = "returned", !.elapsed_time = e,
                         !.sleeps = @ + 1, !.notices = @ + n,
                         !.clock = @ + n,
                         !.thread = @ \o [k \in 1..n |->
                                            [user |-> Bot,
                                             at |-> gw.clock + k,
                                             ts |-> TsStr(gw.clock + k)]],
                         !.text = False, !.max_analysts = None]
    /\ UNCHANGED <<state, step, status, tasks, writes, seen, br, ran, hist,
                   env, wf, slack>>

NextGateway == gw_post \/ gw_poll \/ gw_sleep

SpecGateway == InitGateway /\ [][NextGateway]_vars

----------------------------------------------------------------------------
(* Specifications of the fan-out alone: they begin where the reviewer has  *)
(* accepted n analysts at the first review and the dispatcher has issued   *)
(* one Send per analyst                                                    *)

\* the parent state after gather_info, create_analysts, send_slack and an
\* accepting human_feedback
AcceptedState(n, mode) ==
    LET s1 == Apply(State0, gather_info(State0, mode))
        s2 == Apply(s1, create_analysts(s1, NewAnalysts(1, n)))
    IN Apply(s2, human_feedback(s2, None, max_analysts_default))

InitAccepted(n, mode, e) ==
    /\ state = AcceptedState(n, mode)
    /\ step = 4
    /\ status = "running"
    /\ tasks = {}
    /\ writes = NoUpdate
    /\ seen = [t \in DOMAIN JoinEdges |-> {}]
    /\ br = [i \in 1..n |->
               [pc |-> "ask_question",
                st |-> initiate_all_interviews(
                           AcceptedState(n, mode)).sends[i]]]
    /\ ran = [x \in Nodes |->
               IF x \in {"gather_info", "create_analysts", "send_slack",
                         "human_feedback"} THEN 1 ELSE 0]
    /\ hist = [Hist0 EXCEPT
                 !.reviews = 1, !.allFeedback = FALSE, !.started = n,
                 !.atFanOut = AcceptedState(n, mode),
                 !.lastUpdate = human_feedback(State0, None,
                                               max_analysts_default),
                 !.site = "review", !.lastCount = max_analysts_default,
                 !.lastDispatch = "conduct_interview",
                 !.prompt = [feedback |-> "",
                             max_analysts |-> max_analysts_default]]
    /\ env = e
    /\ gw = Gw0
    /\ wf = Wf0
    /\ slack = Slack0

\* one branch, with every behaviour of its collaborators: questions with or
\* without the closing phrase, a storage query that may raise, no, one or
\* two stored documents, pages that can or cannot be fetched
EnvInterview ==
    {[modes |-> Modes, replies |-> {None}, closing |-> BOOLEAN,
      raises |-> BOOLEAN, stored |-> d, fetched |-> f, aliased |-> a] :
        d \in {<<>>, <<"doc1">>, <<"doc1", "doc2">>},
        f \in {{}, {"url1"}, {"url1", "url2"}},
        a \in BOOLEAN}

InitInterview ==
    \E mode \in Modes, e \in EnvInterview : InitAccepted(1, mode, e)

SpecInterview == InitInterview /\ [][BranchNext]_vars

\* up to MaxBranches branches running concurrently; the interviewers either
\* never use the closing phrase or use it in every question, and the storage
\* query either works throughout or raises throughout
EnvFanOut ==
    {[EnvRun EXCEPT !.closing = c, !.raises = r] :
        c \in {{FALSE}, {TRUE}}, r \in {{FALSE}, {TRUE}}}

InitFanOut ==
    \E n \in 1..MaxBranches, mode \in Modes, e \in EnvFanOut :
        InitAccepted(n, mode, e)

SpecFanOut == InitFanOut /\ [][BranchNext]_vars

----------------------------------------------------------------------------
(* Specification of the intake: the sub-graph behind gather_info run node  *)
(* by node, followed by the review loop of the parent graph                *)

InIntake(pc) ==
    /\ status = "running" /\ tasks = {"gather_info"}
    /\ Len(br) = 1 /\ br[1].pc = pc

\* extract_info, then the static edge to ai_answer
i_extract_info ==
    /\ InIntake("extract_info")
    /\ \E no_topic, no_urls, no_query, has_docs \in BOOLEAN,
          mode \in {"none"} \cup Modes :
        LET x == [topic |-> IF no_topic THEN None ELSE "topic",
                  files_urls_browse |->
                      IF mode = "none" THEN None ELSE <<mode>>,
                  urls |-> IF no_urls THEN None ELSE <<"url1", "url2">>,
                  browse_query |-> IF no_query THEN None ELSE <<"query">>]
            st == InputApply(br[1].st, extract_info(br[1].st, x, has_docs))
        IN br' = <<[pc |-> "ai_answer", st |-> st, n |-> br[1].n + 1]>>
    /\ UNCHANGED <<state, step, status, tasks, writes, seen, ran, hist, env,
                   gw, wf, slack>>

\* ai_answer, then check_input_complete: back to extract_info, or the end of
\* the sub-graph, whose final state is the update of node gather_info
i_ai_answer ==
    /\ InIntake("ai_answer")
    /\ \E text \in {False, "user_message"},
          field \in {"topic", "files_urls_browse", "not_a_field"},
          update_text \in {None, "", "change"} :
        LET upd == ask_user_for_info_with_ai(br[1].st, text, field,
                                             update_text)
            st == InputApply(br[1].st, upd)
            d == check_input_complete(st)
            h == [hist EXCEPT
                    !.lastReply = text, !.lastUpdate = upd,
                    !.site = AsksFor(br[1].st),
                    !.timedOut = @ \/ text = False]
            out == IF Get(st, "timeout", FALSE) THEN "timeout"
                   ELSE st["files_urls_browse"][1]
            g == gather_info(state, out)
        IN IF d.goto = "extract_info"
           THEN /\ IF CeilingReached(br[1].n + 1)
                   THEN status' = "recursion_error" /\ br' = <<>>
                   ELSE /\ status' = status
                        /\ br' = <<[pc |-> "extract_info", st |-> st,
                                    n |-> br[1].n + 1]>>
                /\ hist' = h
                /\ UNCHANGED <<state, step, tasks, writes, seen, ran>>
           ELSE /\ ran' = [ran EXCEPT !["gather_info"] = @ + 1]
                /\ Commit("gather_info" :>
                              [upd |-> g,
                               goto |-> if_timeout(Apply(state, g)).goto,
                               sends |-> <<>>],
                          <<>>, [h EXCEPT !.intake = st])
    /\ UNCHANGED <<env, gw, wf, slack>>

InitIntake ==
    /\ state = State0
    /\ step = 0
    /\ status = "running"
    /\ tasks = {"gather_info"}
    /\ writes = NoUpdate
    /\ seen = [t \in DOMAIN JoinEdges |-> {}]
    /\ br = <<[pc |-> "extract_info", st |-> [u_input |-> "input"], n |-> 0]>>
    /\ ran = [n \in Nodes |-> 0]
    /\ hist = Hist0
    /\ env = EnvRun
    /\ gw = Gw0
    /\ wf = Wf0
    /\ slack = Slack0

NextIntake ==
    \/ i_extract_info
    \/ i_ai_answer
    \/ a_create_analysts
    \/ a_send_slack
    \/ a_human_feedback

SpecIntake == InitIntake /\ [][NextIntake]_vars

\* the run from the acceptance to its end: the branches, their join and the
\* assembly of the report
NextAfterAccept ==
    \/ BranchNext
    \/ a_write_report
    \/ a_write_introduction
    \/ a_write_conclusion
    \/ a_write_index
    \/ a_draft_report_gen
    \/ a_analyse_report
    \/ a_final_report_gen

SpecAfterAccept == InitFanOut /\ [][NextAfterAccept]_vars

----------------------------------------------------------------------------
(* Specification of report_agentic_workflow: the run of the graph, what    *)
(* follows graph.invoke, and the message events of the workspace meanwhile *)

\* exit_agentic_workflow: active_threads.pop(thread_ts, None)
exit_agentic_workflow(active, thread_ts) == active \ {thread_ts}

\* a variant that updates the progress message before it looks at timeout
report_agentic_workflow_UpdateFirst(values, raised, update_ok, send_ok, w) ==
    IF raised THEN [w EXCEPT !.pc = "raised"]
    ELSE IF ~update_ok THEN [w EXCEPT !.pc = "raised"]
    ELSE IF Get(values, "timeout", FALSE)
    THEN [w EXCEPT !.pc = "returned", !.chat_updates = @ + 1,
                   !.active_threads = exit_agentic_workflow(@, ThreadTs)]
    ELSE IF Truthy(Get(values, "final_report", None))
    THEN IF ~send_ok
         THEN [w EXCEPT !.pc = "raised", !.chat_updates = @ + 1,
                        !.rendered = @ + 1]
         ELSE [w EXCEPT !.pc = "returned", !.chat_updates = @ + 1,
                        !.rendered = @ + 1, !.delivered = @ + 1,
                        !.active_threads = exit_agentic_workflow(@, ThreadTs)]
    ELSE [w EXCEPT !.pc = "raised", !.chat_updates = @ + 1]

\* the code after graph.invoke, given the final values of the graph, whether
\* graph.invoke raised, and whether chat_update and the upload succeed; the
\* path of the document is bound only when a report was rendered
report_agentic_workflow(values, raised, update_ok, send_ok, w) ==
    IF raised THEN [w EXCEPT !.pc = "raised"]
    ELSE IF Get(values, "timeout", FALSE)
    THEN [w EXCEPT !.pc = "returned",
                   !.active_threads = exit_agentic_workflow(@, ThreadTs)]
    ELSE IF ~update_ok THEN [w EXCEPT !.pc = "raised"]
    ELSE IF Truthy(Get(values, "final_report", None))
    THEN IF ~send_ok
         THEN [w EXCEPT !.pc = "raised", !.chat_updates = @ + 1,
                        !.rendered = @ + 1]
         ELSE [w EXCEPT !.pc = "returned", !.chat_updates = @ + 1,
                        !.rendered = @ + 1, !.delivered = @ + 1,
                        !.active_threads = exit_agentic_workflow(@, ThreadTs)]
    ELSE [w EXCEPT !.pc = "raised", !.chat_updates = @ + 1]

\* graph.invoke has ended, by returning or by raising
w_return ==
    /\ wf.pc = "invoke"
    /\ status \in {"done", "recursion_error", "service_error"}
    /\ \E update_ok \in BOOLEAN, send_ok \in BOOLEAN :
        wf' = report_agentic_workflow(state, status # "done", update_ok,
                                      send_ok, wf)
    /\ UNCHANGED <<state, step, status, tasks, writes, seen, br, ran, hist,
                   env, gw, slack>>

\* a language model or Slack call inside a node raises: nothing in the
\* graph catches it and graph.invoke raises
w_service_error ==
    /\ wf.pc = "invoke"
    /\ status = "running"
    /\ status' = "service_error"
    /\ UNCHANGED <<state, step, tasks, writes, seen, br, ran, hist, env, gw,
                   wf, slack>>

\* a variant that drops every event while any workflow is running
message_AnyActive(active, thread_ts) ==
    IF active # {} THEN "dropped" ELSE "handled"

\* the message handler, for a relevant event of thread thread_ts
message(active, thread_ts) ==
    IF thread_ts \in active THEN "dropped" ELSE "handled"

m_message ==
    /\ \E thread_ts \in {ThreadTs, OtherTs} :
        wf' = [wf EXCEPT
                 !.event = <<thread_ts, message(wf.active_threads,
                                                thread_ts)>>]
    /\ UNCHANGED <<state, step, status, tasks, writes, seen, br, ran, hist,
                   env, gw, slack>>

NextWorkflow ==
    \/ Next
    \/ w_return
    \/ w_service_error
    \/ m_message

\* the reviewer accepts, sends one feedback text or stays silent
EnvWorkflow == [EnvRun EXCEPT !.replies = {None, False, "fb1"}]

InitWorkflow == InitRun(EnvWorkflow)

SpecWorkflow == InitWorkflow /\ [][NextWorkflow]_vars

----------------------------------------------------------------------------
(* Specification of the routing of one branch for every value of           *)
(* files_urls_browse: a string is the sequence of the words it contains,   *)
(* and the key may be absent from the branch state                         *)

Words == {"files", "urls", "browse", "other"}

Choices ==
    UNION {[1..n -> Words] : n \in 0..MaxLen}

InitRoute ==
    \E present \in BOOLEAN :
      \E choice \in IF present THEN Choices ELSE {<<>>} :
        LET s == AcceptedState(1, "files")
            p == SendPayload(s, s["analysts"][1])
            st == IF present
                  THEN [p EXCEPT !["files_urls_browse"] = choice]
                  ELSE [k \in DOMAIN p \ {"files_urls_browse"} |-> p[k]]
        IN /\ state = s
           /\ step = 4
           /\ status = "running"
           /\ tasks = {}
           /\ writes = NoUpdate
           /\ seen = [t \in DOMAIN JoinEdges |-> {}]
           /\ br = <<[pc |-> "ask_question", st |-> st]>>
           /\ ran = [x \in Nodes |->
                      IF x \in {"gather_info", "create_analysts",
                                "send_slack", "human_feedback"}
                      THEN 1 ELSE 0]
           /\ hist = [Hist0 EXCEPT !.reviews = 1, !.started = 1,
                                   !.atFanOut = s]
           /\ env = EnvRun
           /\ gw = Gw0
           /\ wf = Wf0
           /\ slack = Slack0

SpecRoute == InitRoute /\ [][BranchNext]_vars

----------------------------------------------------------------------------
(* Specification of the reducers alone: two partial updates applied in     *)
(* turn to the accumulators of the parent state and of a branch state      *)

Items == {"a", "b"}

Lists ==
    UNION {[1..n -> Items] : n \in 0..MaxLen}

InitReduce ==
    \E old \in Lists :
        /\ state = [sections |-> old, context |-> old]
        /\ step = 0
        /\ status = "running"
        /\ tasks = {}
        /\ writes = NoUpdate
        /\ seen = [t \in DOMAIN JoinEdges |-> {}]
        /\ br = <<[pc |-> "ask_question",
                   st |-> [messages |-> <<>>, context |-> old]]>>
        /\ ran = [n \in Nodes |-> 0]
        /\ hist = [Hist0 EXCEPT !.old = old]
        /\ env = EnvRun
        /\ gw = Gw0
        /\ wf = Wf0
        /\ slack = Slack0

\* a node of the parent graph returns {k: u}
r_node_update ==
    /\ Len(hist.applied) < 2
    /\ \E k \in {"sections", "context"}, u \in Lists :
        /\ state' = Apply(state, k :> u)
        /\ hist' = [hist EXCEPT
                      !.applied = Append(@, [to |-> k, upd |-> u])]
    /\ UNCHANGED <<step, status, tasks, writes, seen, br, ran, env, gw, wf, slack>>

\* a node of the interview sub-graph returns {"context": u}
r_branch_update ==
    /\ Len(hist.applied) < 2
    /\ \E u \in Lists :
        /\ br' = [br EXCEPT ![1].st = BranchApply(@, [context |-> u])]
        /\ hist' = [hist EXCEPT
                      !.applied = Append(@, [to |-> "branch", upd |-> u])]
    /\ UNCHANGED <<state, step, status, tasks, writes, seen, ran, env, gw,
                   wf, slack>>

NextReduce == r_node_update \/ r_branch_update

SpecReduce == InitReduce /\ [][NextReduce]_vars

----------------------------------------------------------------------------
(* Specification of the Slack utilities: one send_message_with_retry and   *)
(* two get_thread_messages_async coroutines of one event loop, each        *)
(* running from one await to the next                                      *)

InitSlack ==
    /\ state = State0
    /\ step = 0
    /\ status = "slack"
    /\ tasks = {}
    /\ writes = NoUpdate
    /\ seen = [t \in DOMAIN JoinEdges |-> {}]
    /\ br = <<>>
    /\ ran = [n \in Nodes |-> 0]
    /\ hist = Hist0
    /\ env = EnvRun
    /\ gw = Gw0
    /\ wf = Wf0
    /\ \E max_retries \in 1..MaxRetries :
        slack = [Slack0 EXCEPT
                   !.calls = <<Call0(max_retries), Call0(max_retries)>>,
                   !.send = Send0(max_retries)]

SlackFrame ==
    UNCHANGED <<state, step, status, tasks, writes, seen, br, ran, hist, env,
                gw, wf>>

\* send_message_with_retry is called, or wakes from time.sleep(retry_delay)
s_loop ==
    /\ status = "slack"
    /\ slack.send.pc \in {"start", "sleep"}
    /\ slack' = [slack EXCEPT
                   !.send = send_loop([@ EXCEPT
                               !.sleeps = @ + (IF slack.send.pc = "sleep"
                                               THEN 1 ELSE 0)])]
    /\ SlackFrame

\* chat_postMessage answers
s_post ==
    /\ status = "slack"
    /\ slack.send.pc = "post"
    /\ \E ok \in BOOLEAN :
        slack' = [slack EXCEPT !.send = send_message_with_retry(@, ok)]
    /\ SlackFrame

\* coroutine c is started and runs up to its first request
t_start(c) ==
    /\ status = "slack"
    /\ slack.calls[c].pc = "start"
    /\ slack' = [slack EXCEPT
                   !.calls[c] = get_thread_messages_async(
                                    @, slack.rate_limited_event)]
    /\ SlackFrame

\* conversations_replies answers coroutine c: the response, or one of the
\* three failures; a rate-limited failure sets the event and enters
\* handle_rate_limit up to its sleep
t_response(c) ==
    /\ status = "slack"
    /\ slack.calls[c].pc = "request"
    /\ \E r \in {"ok", "IncompleteRead", "ratelimited", "other"} :
        slack' =
            IF r = "ok" THEN [slack EXCEPT !.calls[c].pc = "returned"]
            ELSE [slack EXCEPT
                    !.calls[c] = [on_failure(@, r) EXCEPT
                                    !.failures = @ \cup {r}],
                    !.rate_limited_event = @ \/ r = "ratelimited",
                    !.rate_limit_active = @ \/ r = "ratelimited"]
    /\ SlackFrame

\* coroutine c wakes from asyncio.sleep: after a rate-limit pause
\* handle_rate_limit clears the event; then the loop goes round
t_wake(c) ==
    /\ status = "slack"
    /\ slack.calls[c].pc \in {"backoff", "pause"}
    /\ LET paused == slack.calls[c].pc = "pause"
           event == IF paused THEN FALSE ELSE slack.rate_limited_event
       IN slack' = [slack EXCEPT
                      !.calls[c] = get_thread_messages_async(@, event),
                      !.rate_limited_event = event,
                      !.rate_limit_active = IF paused THEN FALSE ELSE @]
    /\ SlackFrame

NextSlack ==
    \/ s_loop
    \/ s_post
    \/ \E c \in 1..2 : t_start(c)
    \/ \E c \in 1..2 : t_response(c)
    \/ \E c \in 1..2 : t_wake(c)

SpecSlack == InitSlack /\ [][NextSlack]_vars

----------------------------------------------------------------------------
(* Properties *)

BranchNodes ==
    {"ask_question", "read_information", "search_web", "answer_question",
     "save_interview", "write_section", END}

\* the last message of a transcript is an expert's answer
LastIsAnswer(messages) ==
    /\ Len(messages) >= 2
    /\ messages[Len(messages)].name = "expert"

\* a message the gateway must never return: not newer than the marker, the
\* bot's own, without a user, or the root of the thread
Ignorable(i) ==
    \/ gw.thread[i].at <= gw.marker_at
    \/ gw.thread[i].user = Bot
    \/ gw.thread[i].user = None
    \/ i = 1

\* C1: after the join of a fan-out the parent's sections are the branches'
\* sections in the order of the analysts (the order of the Sends), one per
\* branch, whatever the order in which the branches completed.
C1_SectionsInAnalystOrder ==
    hist.joined > 0 =>
        /\ Len(state["sections"]) = hist.n_joined
        /\ Len(state["sections"]) = Len(state["analysts"])
        /\ \A i \in 1..Len(state["sections"]) :
              state["sections"][i].by = state["analysts"][i]

\* three branches completed in reverse order and were joined
C1_Witness ==
    /\ hist.joined = 1
    /\ hist.order = <<3, 2, 1>>
    /\ Len(state["sections"]) = 3

\* C2: whenever timeout is true every dispatcher returns END, whatever the
\* other fields hold, so that the run is over and no node is scheduled.
C2_TimeoutRoutesToEnd ==
    Get(state, "timeout", FALSE) =>
        /\ check_input_complete(state).goto = END
        /\ if_timeout(state).goto = END
        /\ initiate_all_interviews(state).goto = END
        /\ status = "done"
        /\ tasks = {}

\* C3: a gateway call that never finds a qualifying message returns
\* (False, None) with an accumulated waiting time of at least max_wait_time
\* and at most max_wait_time + check_interval, after ceil(T / I) polls each
\* followed by one sleep.
C3_TimeoutNotEarly ==
    (gw.pc = "returned" /\ ~gw.found) =>
        /\ gw.text = False /\ gw.max_analysts = None
        /\ gw.elapsed_time >= gw.max_wait_time
        /\ gw.elapsed_time <= gw.max_wait_time + gw.check_interval
        /\ gw.polls =
             (gw.max_wait_time + gw.check_interval - 1) \div gw.check_interval
        /\ gw.sleeps = gw.polls
        /\ gw.elapsed_time = gw.sleeps * gw.check_interval

\* a wait of 4 polled every 3 timed out after 6
C3_Witness ==
    /\ gw.pc = "returned" /\ ~gw.found
    /\ gw.max_wait_time = 4 /\ gw.check_interval = 3
    /\ gw.elapsed_time = 6 /\ gw.polls = 2

\* C4: the message the gateway returns is newer than the marker, has a user
\* other than the bot and is not the root of the thread; a call that ends
\* with only ignorable messages in the thread ends in the timeout result.
C4_IgnoresOldAndOwn ==
    /\ gw.pc # "idle" /\ gw.found =>
          /\ gw.msg \in 1..Len(gw.thread)
          /\ ~Ignorable(gw.msg)
    /\ (gw.pc = "returned"
        /\ \A i \in 1..Len(gw.thread) : Ignorable(i)) =>
          (~gw.found /\ gw.text = False)

\* the bot and a userless integration posted during a wait that timed out
C4_Witness ==
    /\ gw.pc = "returned" /\ ~gw.found
    /\ gw.posts = 2
    /\ \E i, j \in 4..Len(gw.thread) :
          /\ gw.thread[i].user = Bot /\ gw.thread[j].user = None
          /\ i < Len(gw.thread) /\ j < Len(gw.thread)
    /\ \A i \in 1..Len(gw.thread) : Ignorable(i)

\* C5: once a gateway wait of the run has timed out, timeout is true in the
\* state and stays true, and final_report is never populated.
C5_TimeoutLeavesNoReport ==
    hist.timedOut =>
        /\ Get(state, "timeout", FALSE) = TRUE
        /\ "final_report" \notin DOMAIN state

\* a run that ended after the analyst review timed out
C5_Witness ==
    /\ hist.timedOut /\ hist.reviews >= 1 /\ hist.lastReply = False
    /\ status = "done"

\* C6: while every review has returned feedback text, the run is the cycle
\* create_analysts, send_slack, human_feedback; no branch is started, the
\* run does not end normally, and it is stopped by the recursion-limit
\* error at step recursion_limit exactly.
C6_FeedbackLoopHitsCeiling ==
    (hist.allFeedback /\ hist.reviews >= 1) =>
        /\ hist.started = 0 /\ br = <<>> /\ ran["conduct_interview"] = 0
        /\ status # "done"
        /\ status = "recursion_error" <=> step = recursion_limit
        /\ step <= recursion_limit
        /\ step = ran["gather_info"] + ran["create_analysts"]
                    + ran["send_slack"] + ran["human_feedback"]
        /\ ran["send_slack"] \in
              {ran["human_feedback"], ran["human_feedback"] + 1}
        /\ ran["create_analysts"] \in
              {ran["send_slack"], ran["send_slack"] + 1}

\* sixteen reviews, all answered with feedback, and the error at step 50
C6_Witness ==
    /\ hist.allFeedback /\ hist.reviews = 16
    /\ status = "recursion_error" /\ step = 50
    /\ ran["create_analysts"] = 17

\* C7: a branch never executes answer_question more than max_num_turns
\* times; after the last of them it is at save_interview, write_section or
\* END, in that order, and it is never at anything but a node of the
\* sub-graph.
C7_InterviewBounded ==
    \A b \in 1..Len(br) :
        LET messages == br[b].st["messages"]
        IN /\ br[b].pc \in BranchNodes
           /\ NumResponses(messages) <= max_num_turns_default
           /\ Len(messages) <= 1 + 2 * max_num_turns_default
           /\ (NumResponses(messages) = max_num_turns_default) =>
                 br[b].pc \in {"save_interview", "write_section", END}
           /\ br[b].pc \in {"write_section", END} =>
                 "interview" \in DOMAIN br[b].st
           /\ br[b].pc = END => "sections" \in DOMAIN br[b].st

\* four answers without one closing phrase, and the interview saved
C7_Witness ==
    \E b \in 1..Len(br) :
        /\ br[b].pc = "write_section"
        /\ NumResponses(br[b].st["messages"]) = max_num_turns_default
        /\ \A i \in 1..Len(br[b].st["messages"]) :
              ~br[b].st["messages"][i].closing

\* C8: after an answer the branch goes to save_interview exactly when the
\* number of answers has reached the maximum or the last question contains
\* the closing phrase, and to ask_question otherwise.
C8_RouteIffMaxOrClosing ==
    \A b \in 1..Len(br) :
        LET messages == br[b].st["messages"]
        IN (LastIsAnswer(messages)
            /\ br[b].pc \in {"ask_question", "save_interview"}) =>
              (br[b].pc = "save_interview" <=>
                 \/ NumResponses(messages) >= max_num_turns_default
                 \/ messages[Len(messages) - 1].closing)

\* C9: when the last review's reply had no feedback text, the state's
\* human_analyst_feedback is None and the dispatch that followed fanned out
\* to conduct_interview.
C9_AcceptFansOut ==
    (hist.reviews >= 1 /\ hist.lastReply = None) =>
        /\ Get(state, "human_analyst_feedback", "") = None
        /\ hist.lastDispatch = "conduct_interview"

\* C10: write_index is scheduled only when write_report, write_introduction
\* and write_conclusion have completed, draft_report_gen only when those and
\* write_index have, and each of the two runs at most once, and once in a
\* run that ends normally after the fan-out.
C10_BarriersWaitForAll ==
    /\ ("write_index" \in tasks \/ ran["write_index"] > 0) =>
          /\ ran["write_report"] = 1
          /\ ran["write_introduction"] = 1
          /\ ran["write_conclusion"] = 1
    /\ ("draft_report_gen" \in tasks \/ ran["draft_report_gen"] > 0) =>
          /\ ran["write_report"] = 1
          /\ ran["write_introduction"] = 1
          /\ ran["write_conclusion"] = 1
          /\ ran["write_index"] = 1
    /\ ran["write_index"] <= 1
    /\ ran["draft_report_gen"] <= 1
    /\ (status = "done" /\ ran["write_report"] > 0) =>
          (ran["write_index"] = 1 /\ ran["draft_report_gen"] = 1)

\* the draft assembled after the index and the three parts
C10_Witness ==
    /\ ran["draft_report_gen"] = 1 /\ ran["write_index"] = 1
    /\ status = "done"

C13_OneTimeoutNotice ==
    gw.pc # "idle" =>
       /\ (gw.pc = "returned" /\ ~gw.found) =>
             /\ gw.notices = 1
             /\ gw.thread[Len(gw.thread)].user = Bot
             /\ Len(gw.thread) = Len(Thread0) + gw.posts + 1
       /\ ~(gw.pc = "returned" /\ ~gw.found) =>
             /\ gw.notices = 0
             /\ Len(gw.thread) = Len(Thread0) + gw.posts

\* a call that slept twice before it timed out
C13_Witness ==
    /\ gw.pc = "returned" /\ ~gw.found
    /\ gw.sleeps = 2 /\ gw.notices = 1

\* C11: at each of the three call sites of the gateway, the intake
\* question, the intake confirmation and the analyst review, a (False, None)
\* result makes the node return the update {timeout: True} and nothing else.
C11_TimeoutOnlySetsFlag ==
    (hist.site # None /\ hist.lastReply = False) =>
        /\ DOMAIN hist.lastUpdate = {"timeout"}
        /\ hist.lastUpdate["timeout"] = TRUE

\* the confirmation was answered, and the review that followed timed out
C11_Witness ==
    /\ hist.site = "review" /\ hist.lastReply = False
    /\ ran["gather_info"] = 1 /\ hist.reviews = 1
    /\ Get(state, "timeout", FALSE)

AssemblyNodes ==
    {"write_report", "write_introduction", "write_conclusion", "write_index",
     "draft_report_gen", "analyse_report", "final_report_gen"}

\* C14: a run without timeout whose last review was an acceptance does not
\* stop before it has executed write_report, the assembly nodes,
\* analyse_report and final_report_gen and populated final_report.
C14_AcceptedRunProducesReport ==
    (/\ hist.reviews >= 1 /\ hist.lastReply = None /\ ~hist.timedOut
     /\ status \in {"done", "recursion_error"}) =>
        /\ status = "done"
        /\ "final_report" \in DOMAIN state
        /\ \A n \in AssemblyNodes : ran[n] = 1

\* the number of times branch b has reached END
TimesEnded(b) ==
    Cardinality({i \in 1..Len(hist.order) : hist.order[i] = b})

\* C15: a branch at END has executed write_section once and holds exactly
\* one section, a branch not yet there holds none; the run fans out at most
\* once, and after the join sections has one element per analyst accepted.
C15_OneSectionPerBranch ==
    /\ \A b \in 1..Len(br) :
          IF br[b].pc = END
          THEN TimesEnded(b) = 1 /\ Len(br[b].st["sections"]) = 1
          ELSE TimesEnded(b) = 0 /\ "sections" \notin DOMAIN br[b].st
    /\ hist.joined <= 1
    /\ hist.started \in {0, Len(Get(state, "analysts", <<>>))}
    /\ hist.joined = 1 =>
          /\ Len(state["sections"]) = hist.started
          /\ Len(state["sections"]) = Len(Get(state, "analysts", <<>>))
          /\ ran["conduct_interview"] = hist.started
          /\ br = <<>>

\* three branches joined and the report assembled from their sections
C15_Witness ==
    /\ hist.joined = 1 /\ Len(state["sections"]) = 3
    /\ status = "done" /\ "final_report" \in DOMAIN state

\* C16: when the last review's reply carried feedback text, create_analysts
\* is the next node, the state it reads holds that text and that reply's
\* analyst count, and these are what its prompt was built from once it has
\* run.
C16_FeedbackReachesCreation ==
    (hist.reviews >= 1 /\ Truthy(hist.lastReply)) =>
        /\ tasks \in {{"create_analysts"}, {"send_slack"},
                      {"human_feedback"}, {}}
        /\ (tasks = {} => status = "recursion_error")
        /\ state["human_analyst_feedback"] = hist.lastReply
        /\ state["max_analysts"] = hist.lastCount
        /\ (tasks \in {{"send_slack"}, {"human_feedback"}}
            /\ ~Get(state, "timeout", FALSE)) =>
              /\ hist.prompt.feedback = hist.lastReply
              /\ hist.prompt.max_analysts = hist.lastCount

\* the second creation call was given the feedback and the count 2 of the
\* first review's reply
C16_Witness ==
    /\ hist.reviews = 1 /\ hist.lastReply = "fb1" /\ hist.lastCount = 2
    /\ ran["create_analysts"] = 2 /\ tasks = {"send_slack"}
    /\ hist.prompt = [feedback |-> "fb1", max_analysts |-> 2]

\* C17: after the join every field of the parent state other than sections
\* and context has the value it had when the branches were started, and
\* until write_report has run the state has no other fields than it had.
C17_JoinChangesOnlyAccumulators ==
    hist.joined = 1 =>
        /\ \A k \in DOMAIN hist.atFanOut \ {"sections", "context"} :
              k \in DOMAIN state /\ state[k] = hist.atFanOut[k]
        /\ ran["write_report"] = 0 => DOMAIN state = DOMAIN hist.atFanOut

\* C18: in no step of the run do two sources, nodes or branches, return a
\* value for the same field without reducer; the updates waiting for the
\* end of the current step do not either.
C18_NoConcurrentOverwrite ==
    /\ hist.conflicts = {}
    /\ Conflicts(writes, br) = {}

\* three branches were joined, and write_introduction and write_conclusion
\* have run in one step
C18_Witness ==
    /\ hist.joined = 1 /\ hist.n_joined = 3
    /\ ran["write_introduction"] = 1 /\ ran["write_conclusion"] = 1
    /\ tasks = {"write_index"}

\* C19: a fetch that finds nothing (read_files with no unprocessed document
\* or a storage query that raised, search_web with URLs that are all already
\* in the context) leaves the branch state as it was, moves the branch to
\* answer_question, and touches neither the other branches nor the parent
NothingToRead(b) ==
    \A i \in 1..Len(env.stored) :
        env.stored[i] \in ProcessedFiles(br[b].st["context"])

NothingToBrowse(b) ==
    LET urls == Get(br[b].st, "urls", <<>>)
    IN /\ urls # <<>>
       /\ \A i \in 1..Len(urls) :
              urls[i] \in ProcessedUrls(br[b].st["context"])

AtFetch(b) == At(b, "read_information") \/ At(b, "search_web")

FoundNothing(b) ==
    IF At(b, "read_information")
    THEN NothingToRead(b) \/ hist'.fetch.raised
    ELSE NothingToBrowse(b)

C20_SameRouteEveryTurn ==
    /\ \A r1 \in hist.routes : \A r2 \in hist.routes :
          r1[1] = r2[1] => r1[2] = r2[2]
    /\ \A b \in 1..Len(br) :
          Same(Get(br[b].st, "files_urls_browse", None),
               Get(hist.atFanOut, "files_urls_browse", None))

C20_Witness ==
    \E b \in 1..Len(br) :
        /\ <<b, br[b].pc>> \in hist.routes
        /\ NumResponses(br[b].st["messages"]) >= 2
        /\ br[b].st["context"] # <<>>

\* C21: a step of one branch leaves the transcript, the evidence and the
\* section of every other branch as they were, whatever the interleaving
Private(b) ==
    <<br[b].st["messages"], br[b].st["context"],
      Get(br[b].st, "sections", <<>>)>>

RECURSIVE Appended(_, _)
Appended(log, to) ==
    IF log = <<>> THEN <<>>
    ELSE (IF Head(log).to = to THEN Head(log).upd ELSE <<>>)
         \o Appended(Tail(log), to)

C22_AppendIsConcatenation ==
    /\ state["sections"] = hist.old \o Appended(hist.applied, "sections")
    /\ state["context"] = hist.old \o Appended(hist.applied, "context")
    /\ br[1].st["context"] = hist.old \o Appended(hist.applied, "branch")

C22_Witness ==
    /\ Len(hist.applied) = 2
    /\ hist.applied[1].to = "context" /\ hist.applied[2].to = "context"
    /\ hist.old = <<"a", "b">>
    /\ hist.applied[1].upd = <<"b", "a">>
    /\ hist.applied[2].upd = <<"a">>
    /\ state["context"] = <<"a", "b", "b", "a", "a">>

\* C23: an update with a key outside the schema of the graph that receives
\* it stops the run with an error; the key is neither dropped in silence nor
\* added to the state
SchemaOf(site) == IF site = "review" THEN ResearchKeys ELSE InputKeys

C23_UnknownKeyIsRejected ==
    (DOMAIN hist.lastUpdate \ SchemaOf(hist.site) # {})
    => status = "unknown_field_error"

\* C24: once draft_report_gen has run, analyse_report and final_report_gen
\* run once each, in that order and one at a time, with no branch started in
\* between; the run ends after final_report_gen; final_report is in the
\* state only together with draft_report and analysis_feedback
Closing == {"draft_report_gen", "analyse_report", "final_report_gen"}

C24_AnalysisThenFinalThenEnd ==
    /\ \A n \in Closing : ran[n] <= 1
    /\ ran["final_report_gen"] <= ran["analyse_report"]
    /\ ran["analyse_report"] <= ran["draft_report_gen"]
    /\ ran["draft_report_gen"] = 1
       => /\ br = <<>> /\ hist.joined = 1
          /\ status \in {"running", "done"}
          /\ tasks = IF ran["analyse_report"] = 0 THEN {"analyse_report"}
                     ELSE IF ran["final_report_gen"] = 0
                     THEN {"final_report_gen"} ELSE {}
          /\ (status = "done") = (ran["final_report_gen"] = 1)
    /\ "analysis_feedback" \in DOMAIN state => "draft_report" \in DOMAIN state
    /\ "final_report" \in DOMAIN state
       => {"draft_report", "analysis_feedback"} \subseteq DOMAIN state

C24_Witness ==
    /\ status = "done" /\ hist.reviews = 2
    /\ \A n \in Closing : ran[n] = 1
    /\ {"draft_report", "analysis_feedback", "final_report"}
           \subseteq DOMAIN state

\* C25: however report_agentic_workflow finishes, by returning or by an
\* exception, the thread is no longer in active_threads afterwards
C25_ThreadReleasedOnEveryExit ==
    wf.pc \in {"returned", "raised"} => ThreadTs \notin wf.active_threads

\* C26: a call that returns the timeout result had no qualifying reply in
\* the thread when the timeout was declared: a reply posted at any moment
\* before, the last sleep included, is returned instead
C26_ReplyBeforeTimeoutIsReturned ==
    (gw.pc = "returned" /\ ~gw.found) =>
        \A i \in 1..(Len(gw.thread) - gw.notices) : Ignorable(i)

\* C27: whenever human_feedback took its regeneration branch (the gateway
\* text is a string, the empty one included), the dispatcher that follows
\* goes to create_analysts
C27_RegenerationGoesToCreation ==
    (hist.site = "review" /\ hist.lastReply \in Texts) =>
        hist.lastDispatch = "create_analysts"

\* C28: determine_search_path returns search_web or read_information for
\* every value of files_urls_browse, and read_information when the value
\* names none of browse, urls and files or is absent
NamesNone(st) ==
    \A w \in {"browse", "urls", "files"} :
        ~Contains(Get(st, "files_urls_browse", <<>>), w)

C28_RouteDefaultsToRead ==
    /\ \A r \in hist.routes : r[2] \in {"search_web", "read_information"}
    /\ \A b \in 1..Len(br) :
          (NamesNone(br[b].st) /\ hist.routes # {})
          => hist.routes = {<<b, "read_information">>}

\* C29: the document is rendered and delivered only when the graph ended
\* with timeout unset and a non-empty final_report; with timeout set the
\* function returns without a progress update, a rendering or a delivery
C29_DeliveryOnlyWithReport ==
    /\ wf.delivered <= wf.rendered
    /\ wf.rendered <= wf.chat_updates
    /\ wf.chat_updates <= 1
    /\ wf.rendered > 0
       => /\ status = "done"
          /\ ~Get(state, "timeout", FALSE)
          /\ Truthy(Get(state, "final_report", None))
    /\ (wf.pc # "invoke" /\ Get(state, "timeout", FALSE))
       => /\ wf.chat_updates = 0 /\ wf.rendered = 0 /\ wf.delivered = 0
          /\ (status = "done" => wf.pc = "returned")

C29_Witness ==
    /\ wf.pc = "returned" /\ status = "done"
    /\ Get(state, "timeout", FALSE)
    /\ hist.reviews = 1 /\ hist.lastReply = False
    /\ wf.chat_updates = 0 /\ wf.delivered = 0

\* C30: an event of a thread is dropped exactly when that thread is
\* registered at that moment, so events of the run's thread are dropped
\* while it is registered and handled again once it is not, and events of
\* another thread are always handled; the handler leaves the registry alone
C30_DroppedOnlyWhileRegistered ==
    [][wf'.event # wf.event
       => /\ (wf'.event[2] = "dropped") = (wf'.event[1] \in wf.active_threads)
          /\ (wf'.event[2] = "handled")
                = (wf'.event[1] \notin wf.active_threads)
          /\ (wf'.event[1] = OtherTs => wf'.event[2] = "handled")
          /\ wf'.active_threads = wf.active_threads]_vars

C30_Witness ==
    /\ wf.pc = "returned" /\ wf.delivered = 1
    /\ ThreadTs \notin wf.active_threads
    /\ wf.event = <<ThreadTs, "handled">>

\* C31: in the context of a branch each stored document and each
\* configured URL occurs at most once, whatever the number of turns
TimesIn(context, kind, name) ==
    Cardinality({i \in 1..Len(context) :
                    context[i].kind = kind /\ context[i].name = name})

C31_EvidenceAddedOnce ==
    \A b \in 1..Len(br) :
        /\ \A d \in ProcessedFiles(br[b].st["context"]) :
              TimesIn(br[b].st["context"], "doc", d) = 1
        /\ \A u \in ProcessedUrls(br[b].st["context"]) :
              TimesIn(br[b].st["context"], "url", u) = 1

\* C32: after the seed message the transcript of a branch alternates
\* question, answer, question, ...; a question is followed by one fetch,
\* which leaves the transcript alone, and then by one answer; from
\* save_interview on there are as many questions as answers
IsQuestion(m) == m.type = "ai" /\ m.name = None
IsAnswer(m) == m.type = "ai" /\ m.name = "expert"

Alternates(messages) ==
    /\ Len(messages) >= 1 /\ messages[1].type = "human"
    /\ \A i \in 2..Len(messages) :
          IF i % 2 = 0 THEN IsQuestion(messages[i]) ELSE IsAnswer(messages[i])

FetchNodes == {"read_information", "search_web"}

TurnOrder(b) ==
    LET pc == br[b].pc
        n == Len(br[b].st["messages"])
        pc2 == br'[b].pc
        n2 == Len(br'[b].st["messages"])
    IN CASE pc = "ask_question" -> pc2 \in FetchNodes /\ n2 = n + 1
         [] pc \in FetchNodes -> pc2 = "answer_question" /\ n2 = n
         [] pc = "answer_question" ->
                pc2 \in {"ask_question", "save_interview"} /\ n2 = n + 1
         [] pc = "save_interview" -> pc2 = "write_section" /\ n2 = n
         [] OTHER -> n2 = n

C32_TranscriptAlternates ==
    /\ [](\A b \in 1..Len(br) :
            /\ Alternates(br[b].st["messages"])
            /\ br[b].pc \in FetchNodes \cup {"answer_question"}
               => Len(br[b].st["messages"]) % 2 = 0
            /\ br[b].pc \in {"ask_question", "save_interview",
                              "write_section", END}
               => Len(br[b].st["messages"]) % 2 = 1)
    /\ [][\A b \in 1..Len(br) :
            (Len(br') = Len(br) /\ br'[b] # br[b]) => TurnOrder(b)]_vars

C32_Witness ==
    \E b \in 1..Len(br) :
        /\ br[b].pc = "save_interview"
        /\ Len(br[b].st["messages"]) = 7
        /\ br[b].st["messages"][6].closing

\* C33: the intake goes round again exactly when the timeout flag is unset
\* and some field of its state is None, and ends otherwise; create_analysts
\* is never entered after an intake that ended with the flag unset and a
\* field that is None
HasNone(s) == \E k \in DOMAIN s : IsNone(s[k])

C33_IntakeEndsComplete ==
    /\ (InIntake("extract_info") /\ br[1].n > 0) =>
           (~Get(br[1].st, "timeout", FALSE) /\ HasNone(br[1].st))
    /\ hist.intake # NoUpdate =>
           (Get(hist.intake, "timeout", FALSE) \/ ~HasNone(hist.intake))
    /\ "create_analysts" \in tasks =>
           (hist.intake # NoUpdate /\ ~Get(hist.intake, "timeout", FALSE)
            /\ ~HasNone(hist.intake))

\* create_analysts is about to run after an intake that went round more than
\* once and left the fields of the other modes False
C33_Witness ==
    /\ "create_analysts" \in tasks
    /\ ran["create_analysts"] = 0
    /\ \E k \in DOMAIN hist.intake : Same(hist.intake[k], False)
    /\ hist.site = "confirmation"

\* C34: the message a poll returns is the last message of the thread, as
\* that poll saw it, that qualifies: no qualifying message follows it
C34_NewestReplyReturned ==
    (gw.pc # "idle" /\ gw.found) =>
        \A j \in 1..gw.seen_len : ~Ignorable(j) => j <= gw.msg

\* two replies of the reviewer arrived before the second poll, which
\* returned the later of them
C34_Witness ==
    /\ gw.pc = "returned" /\ gw.found
    /\ gw.posts = 2 /\ gw.polls = 2
    /\ gw.msg = Len(gw.thread)
    /\ ~Ignorable(gw.msg - 1)

\* C35: a step that changes the analysts field is a run of create_analysts,
\* and after every run of create_analysts the field holds the analysts of
\* that run and no other
C35_AnalystsReplacedWholesale ==
    [][/\ ~Same(Get(state, "analysts", None), Get(state', "analysts", None))
          => /\ "create_analysts" \in tasks
             /\ ran'["create_analysts"] = ran["create_analysts"] + 1
       /\ ran'["create_analysts"] = ran["create_analysts"] + 1
          => /\ "analysts" \in DOMAIN state'
             /\ \A i \in 1..Len(state'["analysts"]) :
                   state'["analysts"][i]
                     = [id |-> i, gen |-> ran'["create_analysts"]]]_vars

\* the analysts of the second round, made after a review with feedback, are
\* in the state when the report is finished
C35_Witness ==
    /\ status = "done" /\ "final_report" \in DOMAIN state
    /\ ran["create_analysts"] = 2
    /\ Len(state["analysts"]) = 1
    /\ state["analysts"][1].gen = 2

\* C36: send_message_with_retry never posts more than max_retries times; it
\* returns at its first successful post, every post before having failed;
\* it raises after max_retries failed posts; and it has slept once after
\* each failed post but the last of max_retries
C36_SendRetriesBounded ==
    LET s == slack.send
    IN s.pc # "start" =>
        /\ s.posts <= s.max_retries
        /\ s.pc = "post" => (s.attempt = s.posts /\ s.sleeps = s.posts)
        /\ s.pc = "sleep" =>
              (s.attempt = s.posts /\ s.sleeps = s.posts - 1
               /\ s.posts < s.max_retries)
        /\ s.pc = "returned" =>
              (s.attempt = s.posts - 1 /\ s.sleeps = s.attempt)
        /\ s.pc = "raised" =>
              (s.attempt = s.max_retries /\ s.posts = s.max_retries
               /\ s.sleeps = s.max_retries - 1)

\* the third post succeeded after two failures and two sleeps
C36_Witness ==
    /\ slack.send.pc = "returned"
    /\ slack.send.posts = 3 /\ slack.send.attempt = 2
    /\ slack.send.sleeps = 2

\* C37: a get_thread_messages_async that raised RuntimeError has made
\* max_retries requests, whatever the failures were
C37_GivesUpAfterMaxRetries ==
    \A c \in 1..Len(slack.calls) :
        slack.calls[c].pc = "raised" =>
            slack.calls[c].attempts = slack.calls[c].max_retries

\* C38: no get_thread_messages_async makes a request while
\* rate_limited_event is set
C38_NoRequestDuringPause ==
    \A c \in 1..Len(slack.calls) : ~slack.calls[c].event_at_request

====
